---- MODULE Spec2Model ----
(***************************************************************************)
(* Halton Hills swim schedule importer: the create flow                    *)
(* (create_swim_events.ts) and the clear flow (clear_swim_events.ts) as    *)
(* one state machine over a remote calendar store.  Text is modelled by    *)
(* TLA+ strings, so the string conversions of the source (trim, slice,     *)
(* template literals, padStart) are computed character by character.       *)
(***************************************************************************)
EXTENDS Integers, Sequences, FiniteSets, TLC

VARIABLES
    flow,            \* which script runs: "clear" or "create"
    pc,              \* position of main()
    argv,            \* the parsed command line
    host,            \* the host's timezone side: "utc" or "west" (behind UTC)
    events,          \* clear: what listEvents returned
    instanceDeletes, \* clear: array instanceDeletes
    seriesIds,       \* clear: Set seriesIds, in insertion order
    idx,             \* index of the running for-of loop (1-based)
    attempt,         \* deleteEvent: let attempt
    tries,           \* deleteEvent: delete requests sent by the running call
    waits,           \* deleteEvent: the delays slept in the running call (ms)
    response,        \* deleteEvent: the store's last answer in the running call
    thrown,          \* deleteEvent: the error the last call threw, if any
    cfg,             \* create: the configuration object read from --config
    records,         \* create: the rows csv-parse produced from --schedule
    rules,           \* create: const rules
    store,           \* the remote calendar's events created so far
    runs,            \* create: how many times the script has been started
    calls,           \* the collaborators' operations main has invoked, in order
    log,             \* console output that reports an outcome, in order
    exitCode,        \* process exit code, {} while running
    arg,             \* a helper applied on its own: its argument
    result,          \* a helper applied on its own: what it returned, {} before
    results,         \* listEvents: const results
    pageToken        \* listEvents: let pageToken, {} while undefined

vars == << flow, pc, argv, host, events, instanceDeletes, seriesIds, idx, attempt,
           tries, waits, response, thrown, cfg, records, rules, store, runs, calls, log,
           exitCode, arg, result, results, pageToken >>

listVars == << results, pageToken >>

unitVars == << arg, result, listVars >>

clearVars == << events, instanceDeletes, seriesIds, attempt, tries, waits, response,
               thrown >>

createVars == << host, cfg, records, rules, store, runs >>

-----------------------------------------------------------------------------
(* Bounds of the model *)

MaxEvents == 2

MaxRows == 2

MaxRuns == 2

-----------------------------------------------------------------------------
(* JavaScript values and string built-ins *)

\* A function result: a returned value, or a thrown error.
Ok(v) == [ok |-> TRUE, value |-> v]

Throws(msg) == [ok |-> FALSE, error |-> msg]

Range(seq) == { seq[i] : i \in DOMAIN seq }

Min2(a, b) == IF a <= b THEN a ELSE b

charAt(s, i) == SubSeq(s, i, i)

IsSpace(c) == c = " "

\* String.prototype.trim
trim(s) ==
    LET solid == { i \in 1..Len(s) : ~IsSpace(charAt(s, i)) }
    IN  IF solid = {} THEN ""
        ELSE SubSeq(s, CHOOSE i \in solid : \A j \in solid : i <= j,
                       CHOOSE i \in solid : \A j \in solid : j <= i)

\* String.prototype.indexOf for a one-character needle: 0-based, -1 if absent
indexOf(s, c) ==
    LET hits == { i \in 1..Len(s) : charAt(s, i) = c }
    IN  IF hits = {} THEN -1
        ELSE (CHOOSE i \in hits : \A j \in hits : i <= j) - 1

\* String.prototype.slice(from, to) with 0-based, in-range arguments
slice(s, from, to) == SubSeq(s, from + 1, to)

Digits == << "0", "1", "2", "3", "4", "5", "6", "7", "8", "9" >>

IsDigit(c) == c \in Range(Digits)

DigitVal(c) == (CHOOSE i \in DOMAIN Digits : Digits[i] = c) - 1

IsDigits(s) == Len(s) > 0 /\ \A i \in 1..Len(s) : IsDigit(charAt(s, i))

\* parseInt(s, 10) / Number(s) of a string of decimal digits
RECURSIVE parseInt(_)
parseInt(s) ==
    IF Len(s) = 0 THEN 0
    ELSE 10 * parseInt(SubSeq(s, 1, Len(s) - 1)) + DigitVal(charAt(s, Len(s)))

Upper == << "A", "B", "C", "D", "E", "F", "G", "H", "I", "J", "K", "L", "M",
            "N", "O", "P", "Q", "R", "S", "T", "U", "V", "W", "X", "Y", "Z" >>

Lower == << "a", "b", "c", "d", "e", "f", "g", "h", "i", "j", "k", "l", "m",
            "n", "o", "p", "q", "r", "s", "t", "u", "v", "w", "x", "y", "z" >>

lowerChar(c) ==
    IF c \in Range(Upper) THEN Lower[CHOOSE i \in DOMAIN Upper : Upper[i] = c] ELSE c

\* String.prototype.toLowerCase
RECURSIVE toLowerCase(_)
toLowerCase(s) ==
    IF Len(s) = 0 THEN ""
    ELSE lowerChar(charAt(s, 1)) \o toLowerCase(SubSeq(s, 2, Len(s)))

\* /^word$/i.test(s)
TestWord(word, s) == toLowerCase(s) = word

\* pad2: String(n).padStart(2, "0")
pad2(n) == IF n >= 0 /\ n < 10 THEN "0" \o ToString(n) ELSE ToString(n)

-----------------------------------------------------------------------------
(* Engine built-ins the scripts rely on: Date parsing and Intl time zones *)

\* The ECMAScript date forms YYYY, YYYY-MM and YYYY-MM-DD.  An element out of
\* its range (month 13) makes the string invalid.
IsoDate(s) ==
    /\ Len(s) \in {4, 7, 10}
    /\ IsDigits(SubSeq(s, 1, 4))
    /\ Len(s) >= 7 =>
          /\ charAt(s, 5) = "-"
          /\ IsDigits(SubSeq(s, 6, 7))
          /\ parseInt(SubSeq(s, 6, 7)) \in 1..12
    /\ Len(s) = 10 =>
          /\ charAt(s, 8) = "-"
          /\ IsDigits(SubSeq(s, 9, 10))
          /\ parseInt(SubSeq(s, 9, 10)) \in 1..31

\* The time form HH:mm:ss
IsoTime(s) ==
    /\ Len(s) = 8
    /\ charAt(s, 3) = ":" /\ charAt(s, 6) = ":"
    /\ IsDigits(SubSeq(s, 1, 2)) /\ parseInt(SubSeq(s, 1, 2)) \in 0..24
    /\ IsDigits(SubSeq(s, 4, 5)) /\ parseInt(SubSeq(s, 4, 5)) \in 0..59
    /\ IsDigits(SubSeq(s, 7, 8)) /\ parseInt(SubSeq(s, 7, 8)) \in 0..59

\* new Date(text) is a valid Date: text is a date form, or a date form, "T" and
\* a time form.  The texts of the input sets that are in neither form hold no
\* date at all, so the engine's fallback parser yields Invalid Date for them.
DateIsValid(text) ==
    LET t == indexOf(text, "T")
    IN  IF t = -1 THEN IsoDate(text)
        ELSE IsoDate(slice(text, 0, t)) /\ IsoTime(slice(text, t + 1, Len(text)))

IsLeapYear(y) == (y % 4 = 0 /\ y % 100 # 0) \/ y % 400 = 0

DaysInMonth(y, m) ==
    IF m = 2 THEN (IF IsLeapYear(y) THEN 29 ELSE 28)
    ELSE IF m \in {4, 6, 9, 11} THEN 30 ELSE 31

PrevDay(date) ==
    IF date.d > 1 THEN [date EXCEPT !.d = date.d - 1]
    ELSE IF date.m > 1
         THEN [y |-> date.y, m |-> date.m - 1, d |-> DaysInMonth(date.y, date.m - 1)]
         ELSE [y |-> date.y - 1, m |-> 12, d |-> 31]

\* The year, month and day written in a date form (an absent element is 1).
DateFields(s) ==
    [ y |-> parseInt(SubSeq(s, 1, 4)),
      m |-> IF Len(s) >= 7 THEN parseInt(SubSeq(s, 6, 7)) ELSE 1,
      d |-> IF Len(s) = 10 THEN parseInt(SubSeq(s, 9, 10)) ELSE 1 ]

\* `${y}-${pad2(m)}-${pad2(d)}`
formatYMD(date) == ToString(date.y) \o "-" \o pad2(date.m) \o "-" \o pad2(date.d)

NextDay(date) ==
    IF date.d < DaysInMonth(date.y, date.m) THEN [date EXCEPT !.d = date.d + 1]
    ELSE IF date.m < 12 THEN [y |-> date.y, m |-> date.m + 1, d |-> 1]
    ELSE [y |-> date.y + 1, m |-> 1, d |-> 1]

\* Date.prototype.getDay of a calendar date: 0 is Sunday
MonthKey == << 0, 3, 2, 5, 0, 3, 5, 1, 4, 6, 2, 4 >>

YearFrom(y, m) == IF m < 3 THEN y - 1 ELSE y

WeekdayIndex(yy, m, d) ==
    (yy + (yy \div 4) - (yy \div 100) + (yy \div 400) + MonthKey[m] + d) % 7

getDay(date) == WeekdayIndex(YearFrom(date.y, date.m), date.m, date.d)

\* The first Sunday of month m of year y
FirstSunday(y, m) == 1 + ((7 - getDay([y |-> y, m |-> m, d |-> 1])) % 7)

\* Daylight time in America/Toronto: from the second Sunday of March to the
\* day before the first Sunday of November (to the day; the switch at 2 a.m.
\* is not resolved).
InDST(date) ==
    \/ date.m \in 4..10
    \/ date.m = 3 /\ date.d >= FirstSunday(date.y, 3) + 7
    \/ date.m = 11 /\ date.d < FirstSunday(date.y, 11)

\* Hours east of UTC of a zone on a date
ZoneOffset(zone, date) ==
    IF zone = "America/Toronto" THEN (IF InDST(date) THEN -4 ELSE -5) ELSE 0

\* The zone of a host: "west" is a host in America/Toronto
HostZone(h) == IF h = "west" THEN "America/Toronto" ELSE "UTC"

\* A clock reading: a date and a time of day
Wall(date, hh, mm, ss) == [date |-> date, hour |-> hh, minute |-> mm, second |-> ss]

\* A clock reading k hours later (-24 < k < 24)
Shift(w, k) ==
    IF w.hour + k < 0
    THEN [w EXCEPT !.date = PrevDay(w.date), !.hour = w.hour + k + 24]
    ELSE IF w.hour + k >= 24
    THEN [w EXCEPT !.date = NextDay(w.date), !.hour = w.hour + k - 24]
    ELSE [w EXCEPT !.hour = w.hour + k]

\* new Date("YYYY-MM-DDTHH:mm:ss") on host h: the text is host wall time; the
\* result is the instant, as its UTC reading
ParseLocal(w, h) == Shift(w, 0 - ZoneOffset(HostZone(h), w.date))

\* formatToParts(instant) with timeZone zone: the wall time of the instant there
WallIn(u, zone) == Shift(u, ZoneOffset(zone, u.date))

\* new Date(t.getTime() - t.getTimezoneOffset() * 60000) on host h
MinusTimezoneOffset(u, h) == Shift(u, ZoneOffset(HostZone(h), u.date))

\* Date.prototype.toISOString
toISOString(u) ==
    formatYMD(u.date) \o "T" \o pad2(u.hour) \o ":" \o pad2(u.minute) \o ":"
        \o pad2(u.second) \o ".000Z"

\* isoLocalStart(dateStr, tz) on host h, for arguments it does not throw on
isoLocalStart(dateStr, tz, h) ==
    toISOString(MinusTimezoneOffset(
        ParseLocal(WallIn(ParseLocal(Wall(DateFields(dateStr), 0, 0, 0), h), tz), h), h))

\* The zones Intl.DateTimeFormat accepts; any other name is a RangeError.
KnownTimeZones == { "America/Toronto", "UTC" }

\* isoLocalStart(dateStr, tz) throws: the formatter rejects the zone, or
\* formatToParts rejects the Invalid Date.
isoLocalStartThrows(dateStr, tz) ==
    \/ tz \notin KnownTimeZones
    \/ ~DateIsValid(dateStr \o "T00:00:00")

\* parsePrivateFilter(str): null (modelled "", as falsy as null) when the option
\* is absent, the normalised key=value, or a throw.
parsePrivateFilter(str) ==
    IF str = "" THEN Ok("")
    ELSE LET eq == indexOf(str, "=")
         IN  IF eq = -1 THEN Throws("--privateKey must be key=value")
             ELSE LET key == trim(slice(str, 0, eq))
                      val == trim(slice(str, eq + 1, Len(str)))
                  IN  IF key = "" \/ val = ""
                      THEN Throws("--privateKey must be key=value")
                      ELSE Ok(key \o "=" \o val)

-----------------------------------------------------------------------------
(* clear_swim_events.ts: inputs *)

StartArgs == { "2025-11-01", "2025-11", "tomorrow" }

EndArgs == { "2026-01-31", "2026-13-01" }

TimezoneArgs == { "America/Toronto", "Mars/Phobos" }

\* "" is the absent option.
PrivateKeyArgs == { "", "source=pool-schedule", " k = v ", "source", "=x", "k= " }

ClearArgs ==
    [ start : StartArgs, end : EndArgs, timezone : TimezoneArgs,
      confirm : BOOLEAN, deleteSeries : BOOLEAN, privateKey : PrivateKeyArgs ]

SeriesUniverse == { "S1", "S2" }

\* The i-th listed event: its own id, and the id of its series ("" when it is
\* a standalone event).
EventsAt(i) ==
    [ id : { "e" \o ToString(i) }, recurringEventId : SeriesUniverse \cup { "" } ]

\* What the store may answer to a list: any sequence of up to MaxEvents events
\* with distinct ids.
EventLists ==
    UNION { { evs \in [1..n -> UNION { EventsAt(i) : i \in 1..n }] :
                \A i \in 1..n : evs[i] \in EventsAt(i) } : n \in 0..MaxEvents }

\* The errors calendar.events.delete may reject with: a value that is no
\* object, or an object with an optional numeric code and an optional
\* response.status (an absent field is the empty set).
DeleteErrors ==
    { [isObject |-> FALSE, code |-> {}, status |-> {}],
      [isObject |-> TRUE, code |-> {}, status |-> {}],
      [isObject |-> TRUE, code |-> {404}, status |-> {404}],
      [isObject |-> TRUE, code |-> {410}, status |-> {503}],
      [isObject |-> TRUE, code |-> {403}, status |-> {403}],
      [isObject |-> TRUE, code |-> {429}, status |-> {429}],
      [isObject |-> TRUE, code |-> {}, status |-> {503}],
      [isObject |-> TRUE, code |-> {501}, status |-> {501}] }

-----------------------------------------------------------------------------
(* utils/calendar.ts: deleteEvent *)

maxRetries == 5

retryableStatuses == { 403, 429, 500, 502, 503, 504 }

\* extractStatusCode(err): candidate.code ?? candidate.response?.status
extractStatusCode(err) ==
    IF ~err.isObject THEN {}
    ELSE IF err.code # {} THEN err.code
    ELSE err.status

RECURSIVE Pow2(_)
Pow2(n) == IF n = 0 THEN 1 ELSE 2 * Pow2(n - 1)

\* A variant without the cap.
delayUncapped(n) == 1000 * Pow2(n)

\* const delay = Math.min(1000 * 2 ** attempt, 10000)
delay(n) == Min2(1000 * Pow2(n), 10000)

\* A variant that retries whatever the status is.
retryAnyStatus(n, err) == n < maxRetries /\ extractStatusCode(err) # {}

\* the condition of the retry branch (lines 108-112)
shouldRetry(n, err) ==
    /\ n < maxRetries
    /\ extractStatusCode(err) # {}
    /\ extractStatusCode(err) \subseteq retryableStatuses

-----------------------------------------------------------------------------
(* clear_swim_events.ts: classification of the listed events *)

\* A variant that does not deduplicate.
AppendAlways(set, x) == Append(set, x)

\* Set.prototype.add on an insertion-ordered Set
SetAdd(set, x) == IF x \in Range(set) THEN set ELSE Append(set, x)

\* The for-of loop over events: the plan after the remaining events evs.
RECURSIVE ClassifyLoop(_, _, _, _)
ClassifyLoop(evs, deleteSeries, inst, series) ==
    IF evs = << >> THEN [instanceDeletes |-> inst, seriesIds |-> series]
    ELSE LET ev == Head(evs)
         IN  IF deleteSeries /\ ev.recurringEventId # ""
             THEN ClassifyLoop(Tail(evs), deleteSeries, inst,
                               SetAdd(series, ev.recurringEventId))
             ELSE ClassifyLoop(Tail(evs), deleteSeries, Append(inst, ev.id), series)

-----------------------------------------------------------------------------
(* clear_swim_events.ts: main *)

Call(op, id) == [op |-> op, id |-> id]

Said(kind, id) == [kind |-> kind, id |-> id]

InitClear ==
    /\ arg = << >>
    /\ result = {}
    /\ results = << >>
    /\ pageToken = {}
    /\ flow = "clear"
    /\ pc = "args"
    /\ argv \in ClearArgs
    /\ host \in { "utc", "west" }
    /\ events = << >>
    /\ instanceDeletes = << >>
    /\ seriesIds = << >>
    /\ idx = 1
    /\ attempt = 0
    /\ tries = 0
    /\ waits = << >>
    /\ response = {}
    /\ thrown = {}
    /\ cfg = Throws("not read")
    /\ records = << >>
    /\ rules = << >>
    /\ store = << >>
    /\ runs = 0
    /\ calls = << >>
    /\ log = << >>
    /\ exitCode = {}

\* A variant that ends with exit code 0.
RejectWithZero ==
    /\ log' = Append(log, [kind |-> "error", id |-> ""])
    /\ pc' = "exit"
    /\ exitCode' = {0}

\* main().catch: console.error(e); process.exit(1)
Reject ==
    /\ log' = Append(log, [kind |-> "error", id |-> ""])
    /\ pc' = "exit"
    /\ exitCode' = {1}

\* main().then: process.exit(0)
Resolve ==
    /\ pc' = "exit"
    /\ exitCode' = {0}

\* lines 83-84
timeMin == isoLocalStart(argv.start, argv.timezone, host)

timeMax == isoLocalStart(argv.end, argv.timezone, host)

ArgsAccepted(a) ==
    /\ ~isoLocalStartThrows(a.start, a.timezone)
    /\ ~isoLocalStartThrows(a.end, a.timezone)
    /\ parsePrivateFilter(a.privateKey).ok

\* A variant that goes on whatever the three conversions do.
ParseArgsOkUnchecked ==
    /\ flow = "clear" /\ pc = "args"
    /\ pc' = "authorize"
    /\ UNCHANGED << unitVars, flow, argv, idx, calls, log, exitCode, clearVars, createVars >>

\* lines 83-85: timeMin, timeMax and the tag filter are computed
ParseArgsOk ==
    /\ flow = "clear" /\ pc = "args"
    /\ ArgsAccepted(argv)
    /\ pc' = "authorize"
    /\ UNCHANGED << unitVars, flow, argv, idx, calls, log, exitCode, clearVars, createVars >>

\* lines 83-85: one of the three conversions throws
ParseArgsThrows ==
    /\ flow = "clear" /\ pc = "args"
    /\ ~ArgsAccepted(argv)
    /\ Reject
    /\ UNCHANGED << unitVars, flow, argv, idx, calls, clearVars, createVars >>

\* lines 87-88: authorize() resolves
ClearAuthorize ==
    /\ flow = "clear" /\ pc = "authorize"
    /\ calls' = Append(calls, Call("authorize", ""))
    /\ pc' = "list"
    /\ UNCHANGED << unitVars, flow, argv, idx, log, exitCode, clearVars, createVars >>

\* lines 87-88: authorize() throws (credentials.json unreadable)
ClearAuthorizeFails ==
    /\ flow = "clear" /\ pc = "authorize"
    /\ calls' = Append(calls, Call("authorize", ""))
    /\ Reject
    /\ UNCHANGED << unitVars, flow, argv, idx, clearVars, createVars >>

\* lines 100-105: listEvents resolves with every page's items
ListEvents(evs) ==
    /\ flow = "clear" /\ pc = "list"
    /\ calls' = Append(calls, Call("list", timeMin \o "/" \o timeMax))
    /\ events' = evs
    /\ pc' = "listed"
    /\ UNCHANGED << unitVars, flow, argv, idx, log, exitCode, instanceDeletes, seriesIds,
                    attempt, tries, waits, response, thrown, createVars >>

\* lines 100-105: a page request rejects
ListEventsFails ==
    /\ flow = "clear" /\ pc = "list"
    /\ calls' = Append(calls, Call("list", timeMin \o "/" \o timeMax))
    /\ Reject
    /\ UNCHANGED << unitVars, flow, argv, idx, clearVars, createVars >>

\* lines 107-110
NoEvents ==
    /\ flow = "clear" /\ pc = "listed"
    /\ events = << >>
    /\ log' = Append(log, Said("none found", ""))
    /\ Resolve
    /\ UNCHANGED << unitVars, flow, argv, idx, calls, clearVars, createVars >>

\* lines 112-137: the plan is built and reported
Classify ==
    /\ flow = "clear" /\ pc = "listed"
    /\ events # << >>
    /\ LET plan == ClassifyLoop(events, argv.deleteSeries, << >>, << >>)
       IN  /\ instanceDeletes' = plan.instanceDeletes
           /\ seriesIds' = plan.seriesIds
    /\ log' = Append(log, Said("planned", ""))
    /\ pc' = "planned"
    /\ UNCHANGED << unitVars, flow, argv, idx, calls, exitCode, events, attempt, tries,
                    waits, response, thrown, createVars >>

\* lines 139-144
DryRunReturn ==
    /\ flow = "clear" /\ pc = "planned"
    /\ ~argv.confirm
    /\ log' = Append(log, Said("dry-run complete", ""))
    /\ Resolve
    /\ UNCHANGED << unitVars, flow, argv, idx, calls, clearVars, createVars >>

\* A variant that does not test confirm.
StartDeletesUnconfirmed ==
    /\ flow = "clear" /\ pc = "planned"
    /\ pc' = "instances"
    /\ idx' = 1
    /\ UNCHANGED << unitVars, flow, argv, calls, log, exitCode, clearVars, createVars >>

\* line 139 not taken: the deletion loops start
StartDeletes ==
    /\ flow = "clear" /\ pc = "planned"
    /\ argv.confirm
    /\ pc' = "instances"
    /\ idx' = 1
    /\ UNCHANGED << unitVars, flow, argv, calls, log, exitCode, clearVars, createVars >>

\* The array the running loop iterates, and the id it is at.
LoopIds == IF pc \in { "instances", "instances.delete" } THEN instanceDeletes ELSE seriesIds

LoopHead == IF pc \in { "instances", "instances.delete" } THEN "instances" ELSE "series"

LoopWord == IF LoopHead = "instances" THEN "instance" ELSE "series"

\* lines 148 and 157: deleteEvent is called for the loop's next id
EnterDeleteEvent ==
    /\ flow = "clear" /\ pc \in { "instances", "series" }
    /\ idx <= Len(LoopIds)
    /\ calls' = Append(calls, Call("delete", LoopIds[idx]))
    /\ pc' = LoopHead \o ".delete"
    /\ attempt' = 0
    /\ tries' = 0
    /\ waits' = << >>
    /\ response' = {}
    /\ thrown' = {}
    /\ UNCHANGED << unitVars, flow, argv, idx, log, exitCode, events, instanceDeletes,
                    seriesIds, createVars >>

\* line 146: the first loop is over
InstancesDone ==
    /\ flow = "clear" /\ pc = "instances"
    /\ idx > Len(instanceDeletes)
    /\ pc' = "series"
    /\ idx' = 1
    /\ UNCHANGED << unitVars, flow, argv, calls, log, exitCode, clearVars, createVars >>

\* lines 155-164: the second loop is over
SeriesDone ==
    /\ flow = "clear" /\ pc = "series"
    /\ idx > Len(seriesIds)
    /\ log' = Append(log, Said("done", ""))
    /\ Resolve
    /\ UNCHANGED << unitVars, flow, argv, idx, calls, clearVars, createVars >>

\* calendar.ts 104-105, then main 149 / 158: the delete resolves
DeleteSucceeds ==
    /\ flow = "clear" /\ pc \in { "instances.delete", "series.delete" }
    /\ tries' = tries + 1
    /\ response' = { [ok |-> TRUE] }
    /\ log' = Append(log, Said("deleted " \o LoopWord, LoopIds[idx]))
    /\ idx' = idx + 1
    /\ pc' = LoopHead
    /\ UNCHANGED << unitVars, flow, argv, calls, exitCode, events, instanceDeletes,
                    seriesIds, attempt, waits, thrown, createVars >>

\* calendar.ts 106-115: the delete rejects and is retried after a wait
DeleteRetries(err) ==
    /\ flow = "clear" /\ pc \in { "instances.delete", "series.delete" }
    /\ shouldRetry(attempt, err)
    /\ tries' = tries + 1
    /\ response' = { [ok |-> FALSE, err |-> err] }
    /\ waits' = Append(waits, delay(attempt))
    /\ attempt' = attempt + 1
    /\ UNCHANGED << unitVars, flow, pc, argv, idx, calls, log, exitCode, events,
                    instanceDeletes, seriesIds, thrown, createVars >>

\* A variant in which a rejected delete ends the run.
DeleteThrowsAborts(err) ==
    /\ flow = "clear" /\ pc \in { "instances.delete", "series.delete" }
    /\ ~shouldRetry(attempt, err)
    /\ tries' = tries + 1
    /\ response' = { [ok |-> FALSE, err |-> err] }
    /\ thrown' = { err }
    /\ Reject
    /\ UNCHANGED << unitVars, flow, argv, idx, calls, events, instanceDeletes,
                    seriesIds, attempt, waits, createVars >>

\* calendar.ts 116-118, then main 150-152 / 159-161: the delete rejects, the
\* error is rethrown, and main catches and logs it
DeleteThrows(err) ==
    /\ flow = "clear" /\ pc \in { "instances.delete", "series.delete" }
    /\ ~shouldRetry(attempt, err)
    /\ tries' = tries + 1
    /\ response' = { [ok |-> FALSE, err |-> err] }
    /\ thrown' = { err }
    /\ log' = Append(log, Said("failed " \o LoopWord, LoopIds[idx]))
    /\ idx' = idx + 1
    /\ pc' = LoopHead
    /\ UNCHANGED << unitVars, flow, argv, calls, exitCode, events, instanceDeletes,
                    seriesIds, attempt, waits, createVars >>

NextClear ==
    \/ ParseArgsOk
    \/ ParseArgsThrows
    \/ ClearAuthorize
    \/ ClearAuthorizeFails
    \/ \E evs \in EventLists : ListEvents(evs)
    \/ ListEventsFails
    \/ NoEvents
    \/ Classify
    \/ DryRunReturn
    \/ StartDeletes
    \/ EnterDeleteEvent
    \/ InstancesDone
    \/ SeriesDone
    \/ DeleteSucceeds
    \/ \E err \in DeleteErrors : DeleteRetries(err)
    \/ \E err \in DeleteErrors : DeleteThrows(err)

SpecClear == InitClear /\ [][NextClear]_vars

-----------------------------------------------------------------------------
(* utils/helpers.ts and utils/time.ts: dates, weekdays and time ranges *)

\* parseDateLoose(s) on a host h.  A date form without a time is UTC midnight,
\* and getFullYear/getMonth/getDate read it in the host's zone: on a host
\* behind UTC that is the evening of the day before.
parseDateLoose(s, h) ==
    IF ~DateIsValid(s) THEN Throws("Could not parse date")
    ELSE IF indexOf(s, "T") = -1
         THEN Ok(IF h = "west" THEN PrevDay(DateFields(s)) ELSE DateFields(s))
         ELSE Ok(DateFields(slice(s, 0, indexOf(s, "T"))))

\* row[1].replace(/^"|"$/g, "")
stripQuotes(s) ==
    LET a == IF Len(s) > 0 /\ charAt(s, 1) = "\"" THEN SubSeq(s, 2, Len(s)) ELSE s
    IN  IF Len(a) > 0 /\ charAt(a, Len(a)) = "\"" THEN SubSeq(a, 1, Len(a) - 1) ELSE a

\* A variant that looks the name up whatever its casing.
BYDAYAnyCase(day) ==
    CASE toLowerCase(day) = "sunday" -> "SU"
      [] toLowerCase(day) = "monday" -> "MO"
      [] toLowerCase(day) = "tuesday" -> "TU"
      [] toLowerCase(day) = "wednesday" -> "WE"
      [] toLowerCase(day) = "thursday" -> "TH"
      [] toLowerCase(day) = "friday" -> "FR"
      [] toLowerCase(day) = "saturday" -> "SA"
      [] OTHER -> ""

\* BYDAY: the keys are the capitalised English names; BYDAY[other] is undefined
\* (modelled "").
BYDAY(day) ==
    CASE day = "Sunday" -> "SU"
      [] day = "Monday" -> "MO"
      [] day = "Tuesday" -> "TU"
      [] day = "Wednesday" -> "WE"
      [] day = "Thursday" -> "TH"
      [] day = "Friday" -> "FR"
      [] day = "Saturday" -> "SA"
      [] OTHER -> ""

\* BYDAY_TO_INDEX, as the set of its keys' indexes ({} for undefined)
BYDAY_TO_INDEX(byDay) ==
    LET codes == << "SU", "MO", "TU", "WE", "TH", "FR", "SA" >>
    IN  { i - 1 : i \in { j \in DOMAIN codes : codes[j] = byDay } }

\* How many digits, at most 2, stand at position p of s.
DigitRun(s, p) ==
    IF p + 1 <= Len(s) /\ IsDigit(charAt(s, p)) /\ IsDigit(charAt(s, p + 1)) THEN 2
    ELSE IF p <= Len(s) /\ IsDigit(charAt(s, p)) THEN 1
    ELSE 0

\* \s* at position p: the position after it
RECURSIVE SkipSpaces(_, _)
SkipSpaces(s, p) ==
    IF p <= Len(s) /\ IsSpace(charAt(s, p)) THEN SkipSpaces(s, p + 1) ELSE p

\* (\d{1,2})(?::(\d{2}))? at position p, whose hour group holds n digits: the
\* groups ("" for an absent one) and the position after the match
ClockAt(s, p, n) ==
    LET minutes == /\ p + n + 2 <= Len(s)
                   /\ charAt(s, p + n) = ":"
                   /\ IsDigit(charAt(s, p + n + 1))
                   /\ IsDigit(charAt(s, p + n + 2))
    IN  [ ok |-> n > 0,
          h |-> IF n > 0 THEN SubSeq(s, p, p + n - 1) ELSE "",
          m |-> IF minutes THEN SubSeq(s, p + n + 1, p + n + 2) ELSE "",
          next |-> IF minutes THEN p + n + 3 ELSE p + n ]

MatchClock(s, p) == ClockAt(s, p, DigitRun(s, p))

\* -\s* at position p: the position after it, 0 when there is no match
DashAt(s, p) ==
    IF p <= Len(s) /\ charAt(s, p) = "-" THEN SkipSpaces(s, p + 1) ELSE 0

\* \s*-\s* at position p: the position after it, 0 when there is no match
MatchDash(s, p) == DashAt(s, SkipSpaces(s, p))

\* (am|pm)?$ at position p: the group ("" when absent), or no match
SuffixAt(s, p) ==
    IF p > Len(s) THEN Ok("")
    ELSE IF SubSeq(s, p, Len(s)) \in { "am", "pm" } THEN Ok(SubSeq(s, p, Len(s)))
    ELSE Throws("no match")

MatchSuffix(s, p) == SuffixAt(s, SkipSpaces(s, p))

\* The groups of a match of the whole expression
Groups(c1, c2, suf) ==
    IF ~c2.ok \/ ~suf.ok THEN Throws("no match")
    ELSE Ok([h1 |-> c1.h, m1 |-> c1.m, h2 |-> c2.h, m2 |-> c2.m, suf |-> suf.value])

MatchEnd(s, c1, c2) == Groups(c1, c2, MatchSuffix(s, c2.next))

MatchSecond(s, c1, p) ==
    IF ~c1.ok \/ p = 0 THEN Throws("no match") ELSE MatchEnd(s, c1, MatchClock(s, p))

MatchFirst(s, c1) == MatchSecond(s, c1, MatchDash(s, c1.next))

\* s.match(/^(\d{1,2})(?::(\d{2}))?\s*-\s*(\d{1,2})(?::(\d{2}))?\s*(am|pm)?$/)
MatchRange(s) == MatchFirst(s, MatchClock(s, 1))

\* A variant that shifts the start of a range ending at 12 pm as well.
To24Symmetric(h1, m1, h2, m2, suf) ==
    [ start |-> [ hour |-> IF suf = "am" THEN (IF h1 = 12 THEN 0 ELSE h1)
                           ELSE IF suf = "pm" /\ h1 # 12 THEN h1 + 12
                           ELSE h1,
                  minute |-> m1 ],
      end |-> [ hour |-> IF suf = "am" THEN (IF h2 = 12 THEN 0 ELSE h2)
                         ELSE IF suf = "pm" /\ h2 # 12 THEN h2 + 12
                         ELSE h2,
                minute |-> m2 ] ]

\* lines 13-28: the groups turned into 24-hour times
To24(h1, m1, h2, m2, suf) ==
    [ start |-> [ hour |-> IF suf = "am" THEN (IF h1 = 12 THEN 0 ELSE h1)
                           ELSE IF suf = "pm" /\ h2 # 12 /\ h1 # 12 THEN h1 + 12
                           ELSE h1,
                  minute |-> m1 ],
      end |-> [ hour |-> IF suf = "am" THEN (IF h2 = 12 THEN 0 ELSE h2)
                         ELSE IF suf = "pm" /\ h2 # 12 THEN h2 + 12
                         ELSE h2,
                minute |-> m2 ] ]

TimesOf(m) ==
    IF ~m.ok THEN Throws("Unrecognized time range")
    ELSE Ok(To24(parseInt(m.value.h1), parseInt(m.value.m1), parseInt(m.value.h2),
                 parseInt(m.value.m2), m.value.suf))

\* parseTimeRange(rangeStr)
parseTimeRange(rangeStr) == TimesOf(MatchRange(toLowerCase(trim(rangeStr))))

-----------------------------------------------------------------------------
(* utils/csv.ts *)

Cell(rec, k) == trim(rec[k])

\* The first loop of parseScheduleCSV from record i on (1-based), with the
\* season found so far ("" for null): the season and the header's index (0
\* when there is none), or the throw of parseDateLoose.
\* formatYMD(parseDateLoose(...)) of a Start or End row's second cell
FormatDate(date) == IF date.ok THEN Ok(formatYMD(date.value)) ELSE date

SeasonDate(c1, h) == FormatDate(parseDateLoose(stripQuotes(c1), h))

RECURSIVE ScanPreamble(_, _, _, _, _)
ScanPreamble(recs, i, seasonStart, seasonEnd, h) ==
    IF i > Len(recs)
    THEN Ok([seasonStart |-> seasonStart, seasonEnd |-> seasonEnd, headerIndex |-> 0])
    ELSE IF TestWord("start", Cell(recs[i], 1)) /\ Cell(recs[i], 2) # ""
    THEN IF ~SeasonDate(Cell(recs[i], 2), h).ok THEN SeasonDate(Cell(recs[i], 2), h)
         ELSE ScanPreamble(recs, i + 1, SeasonDate(Cell(recs[i], 2), h).value,
                           seasonEnd, h)
    ELSE IF TestWord("end", Cell(recs[i], 1)) /\ Cell(recs[i], 2) # ""
    THEN IF ~SeasonDate(Cell(recs[i], 2), h).ok THEN SeasonDate(Cell(recs[i], 2), h)
         ELSE ScanPreamble(recs, i + 1, seasonStart,
                           SeasonDate(Cell(recs[i], 2), h).value, h)
    ELSE IF /\ TestWord("place", Cell(recs[i], 1))
            /\ TestWord("day", Cell(recs[i], 2))
            /\ TestWord("time", Cell(recs[i], 3))
    THEN Ok([seasonStart |-> seasonStart, seasonEnd |-> seasonEnd, headerIndex |-> i])
    ELSE ScanPreamble(recs, i + 1, seasonStart, seasonEnd, h)

\* A variant in which a blank row clears the carried place and day.
RECURSIVE ScanRowsResetting(_, _, _, _, _)
ScanRowsResetting(recs, i, lastPlace, lastDay, rows) ==
    IF i > Len(recs) THEN Ok(rows)
    ELSE LET placeRaw == Cell(recs[i], 1)
             dayRaw == Cell(recs[i], 2)
             timeRaw == Cell(recs[i], 3)
             swimRaw == Cell(recs[i], 4)
             place == IF placeRaw # "" THEN placeRaw ELSE lastPlace
             day == IF dayRaw # "" THEN dayRaw ELSE lastDay
         IN  IF placeRaw = "" /\ dayRaw = "" /\ timeRaw = "" /\ swimRaw = ""
             THEN ScanRowsResetting(recs, i + 1, "", "", rows)
             ELSE IF place = "" \/ day = "" \/ timeRaw = ""
             THEN ScanRowsResetting(recs, i + 1, place, day, rows)
             ELSE IF BYDAY(day) = "" THEN Throws("Unrecognized day")
             ELSE ScanRowsResetting(recs, i + 1, place, day,
                                    Append(rows, [ place |-> place, day |-> day,
                                                   byDay |-> BYDAY(day),
                                                   timeRange |-> timeRaw,
                                                   swim |-> swimRaw ]))

\* The second loop of parseScheduleCSV from record i on, with the carried
\* place and day and the rows pushed so far.
RECURSIVE ScanRows(_, _, _, _, _)
ScanRows(recs, i, lastPlace, lastDay, rows) ==
    IF i > Len(recs) THEN Ok(rows)
    ELSE LET placeRaw == Cell(recs[i], 1)
             dayRaw == Cell(recs[i], 2)
             timeRaw == Cell(recs[i], 3)
             swimRaw == Cell(recs[i], 4)
             place == IF placeRaw # "" THEN placeRaw ELSE lastPlace
             day == IF dayRaw # "" THEN dayRaw ELSE lastDay
         IN  IF placeRaw = "" /\ dayRaw = "" /\ timeRaw = "" /\ swimRaw = ""
             THEN ScanRows(recs, i + 1, lastPlace, lastDay, rows)
             ELSE IF place = "" \/ day = "" \/ timeRaw = ""
             THEN ScanRows(recs, i + 1, place, day, rows)
             ELSE IF BYDAY(day) = "" THEN Throws("Unrecognized day")
             ELSE ScanRows(recs, i + 1, place, day,
                           Append(rows, [ place |-> place, day |-> day,
                                          byDay |-> BYDAY(day),
                                          timeRange |-> timeRaw, swim |-> swimRaw ]))

\* line 61: the result
Parsed(pre, rows) ==
    IF ~rows.ok THEN rows
    ELSE Ok([ season |-> [startDate |-> pre.seasonStart, endDate |-> pre.seasonEnd],
              rows |-> rows.value ])

\* lines 31-59: the checks after the first loop, and the second loop
ParseRows(recs, pre) ==
    IF ~pre.ok THEN pre
    ELSE IF pre.value.seasonStart = "" \/ pre.value.seasonEnd = ""
    THEN Throws("CSV must include Start and End rows.")
    ELSE IF pre.value.headerIndex = 0 THEN Throws("CSV must include a header row")
    ELSE Parsed(pre.value, ScanRows(recs, pre.value.headerIndex + 1, "", "", << >>))

\* parseScheduleCSV, given the records csv-parse produced
parseScheduleCSV(recs, h) ==
    IF recs = << >> THEN Throws("Empty CSV")
    ELSE ParseRows(recs, ScanPreamble(recs, 1, "", "", h))

\* The rule of a row whose time range resolved to t
Rule(r, t, season) ==
    [ summary |-> IF r.swim # "" THEN r.swim \o " Swim" ELSE "Swim",
      description |-> r.swim,
      startTime |-> pad2(t.start.hour) \o ":" \o pad2(t.start.minute),
      endTime |-> pad2(t.end.hour) \o ":" \o pad2(t.end.minute),
      byDay |-> << r.byDay >>,
      season |-> season,
      _place |-> r.place ]

\* The callback of rows.map in expandRowsToRules
RuleOf(r, season) == Rule(r, parseTimeRange(r.timeRange).value, season)

\* expandRowsToRules(rows, season)
expandRowsToRules(rows, season) ==
    IF \E i \in DOMAIN rows : ~parseTimeRange(rows[i].timeRange).ok
    THEN Throws("Unrecognized time range")
    ELSE Ok([ i \in DOMAIN rows |-> RuleOf(rows[i], season) ])

-----------------------------------------------------------------------------
(* utils/calendar.ts: event creation helpers *)

\* makePrivateKey(rule, byDay, place, seasonStart, seasonEnd)
makePrivateKey(rule, byDay, place, seasonStart, seasonEnd) ==
    rule.summary \o "-" \o place \o "-" \o byDay \o "-" \o rule.startTime \o "-"
        \o rule.endTime \o "-" \o seasonStart \o "-" \o seasonEnd

\* parseYMD(s) of a YYYY-MM-DD text
parseYMD(s) == DateFields(s)

\* first.setDate(start.getDate() + delta)
RECURSIVE AddDays(_, _)
AddDays(date, n) == IF n = 0 THEN date ELSE AddDays(NextDay(date), n - 1)

\* A variant that never returns the given date itself.
firstOccurrenceAfter(start, weekdayIdx) ==
    AddDays(start, ((weekdayIdx - getDay(start) + 6) % 7) + 1)

\* firstOccurrenceOnOrAfter, given the parsed date
firstOccurrenceOnOrAfter(start, weekdayIdx) ==
    AddDays(start, (weekdayIdx - getDay(start) + 7) % 7)

\* localDateTimeString(y, m, d, hh, mm, ss)
localDateTimeString(date, hh, mm, ss) ==
    formatYMD(date) \o "T" \o pad2(hh) \o ":" \o pad2(mm) \o ":" \o pad2(ss)

\* rule.startTime.split(":").map(Number) of an HH:MM text
SplitTime(text) ==
    [hour |-> parseInt(SubSeq(text, 1, 2)), minute |-> parseInt(SubSeq(text, 4, 5))]

\* lines 139-143: the compact UTC form
CompactZ(u) ==
    ToString(u.date.y) \o pad2(u.date.m) \o pad2(u.date.d) \o "T" \o pad2(u.hour)
        \o pad2(u.minute) \o pad2(u.second) \o "Z"

\* tzWallToUTC_ZString(wall, tz) on host h
tzWallToUTC_ZString(w, tz, h) ==
    CompactZ(MinusTimezoneOffset(ParseLocal(WallIn(ParseLocal(w, h), tz), h), h))

\* calendar.ts 186-188 and 201-202: start and end of the first occurrence
FirstTimes(first, s, e) ==
    [ start |-> localDateTimeString(first, s.hour, s.minute, 0),
      end |-> localDateTimeString(first, e.hour, e.minute, 0) ]

\* calendar.ts 190-203: the recurrence rule
Recurrence(byDay, endDate, tz, h) ==
    "RRULE:FREQ=WEEKLY;BYDAY=" \o byDay \o ";UNTIL="
        \o tzWallToUTC_ZString(Wall(parseYMD(endDate), 23, 59, 59), tz, h)

\* buildEventObject(cfg, rule, byDay, place) on the running host: the fields of
\* the event that identify and place it, or a throw (an unsupported weekday
\* code; a zone that tzWallToUTC_ZString's formatter rejects).
buildEventObject(c, rule, byDay, place) ==
    IF BYDAY_TO_INDEX(byDay) = {} THEN Throws("Unsupported BYDAY value")
    ELSE IF c.timezone \notin KnownTimeZones THEN Throws("RangeError: Invalid time zone")
    ELSE Ok([ summary |-> rule.summary,
              description |-> rule.description,
              timeZone |-> c.timezone,
              place |-> place,
              byDay |-> byDay,
              startTime |-> rule.startTime,
              endTime |-> rule.endTime,
              season |-> rule.season,
              times |-> FirstTimes(
                  firstOccurrenceOnOrAfter(parseYMD(rule.season.startDate),
                                           CHOOSE i \in BYDAY_TO_INDEX(byDay) : TRUE),
                  SplitTime(rule.startTime), SplitTime(rule.endTime)),
              recurrence |-> Recurrence(byDay, rule.season.endDate, c.timezone, host),
              source |-> "pool-schedule",
              key |-> makePrivateKey(rule, byDay, place, rule.season.startDate,
                                     rule.season.endDate) ])

-----------------------------------------------------------------------------
(* create_swim_events.ts: inputs *)

\* What readJSONSync(--config) yields: a throw, or the configuration object
\* (an absent field is "").
ConfigFiles ==
    { Throws("ENOENT"),
      Ok([calendarId |-> "", timezone |-> "America/Toronto"]),
      Ok([calendarId |-> "cal", timezone |-> ""]),
      Ok([calendarId |-> "cal", timezone |-> "America/Toronto"]),
      Ok([calendarId |-> "cal", timezone |-> "Mars/Phobos"]) }

StartRow == << "Start", "2025-09-02", "", "" >>

EndRow == << "End", "2025-12-21", "", "" >>

HeaderRow == << "Place", "Day", "Time", "Swim" >>

Preambles ==
    { << StartRow, EndRow, HeaderRow >>,
      << EndRow, HeaderRow >>,
      << StartRow, EndRow >>,
      << << "start", "soon", "", "" >>, EndRow, HeaderRow >> }

DataRows ==
    { << "a", "Monday", "6:30-7:30am", "" >>,
      << "", "", "11-12pm", "Adult" >>,
      << "a Swim-b", "Monday", "6:30-7:30am", "" >>,
      << "b", "Monday", "6:30-7:30am", "Swim-a" >>,
      << "a", "Funday", "1-2pm", "" >>,
      << "a", "Monday", "7pm", "" >>,
      << "", "", "", "" >> }

\* The records of a schedule file: empty, or a preamble and up to MaxRows rows.
CsvFiles ==
    { << >> } \cup
    { pre \o data : pre \in Preambles,
                    data \in UNION { [1..n -> DataRows] : n \in 0..MaxRows } }

Hosts == { "utc", "west" }

-----------------------------------------------------------------------------
(* create_swim_events.ts: main *)

InitCreate ==
    /\ arg = << >>
    /\ result = {}
    /\ results = << >>
    /\ pageToken = {}
    /\ flow = "create"
    /\ pc = "config"
    /\ argv \in [confirm : BOOLEAN]
    /\ host \in Hosts
    /\ events = << >>
    /\ instanceDeletes = << >>
    /\ seriesIds = << >>
    /\ idx = 1
    /\ attempt = 0
    /\ tries = 0
    /\ waits = << >>
    /\ response = {}
    /\ thrown = {}
    /\ cfg \in ConfigFiles
    /\ records \in CsvFiles
    /\ rules = << >>
    /\ store = << >>
    /\ runs = 1
    /\ calls = << >>
    /\ log = << >>
    /\ exitCode = {}

dryRun == ~argv.confirm

ConfigAccepted(c) == c.ok /\ c.value.calendarId # "" /\ c.value.timezone # ""

\* lines 65-73: the configuration is read and holds both required fields
ConfigOk ==
    /\ flow = "create" /\ pc = "config"
    /\ ConfigAccepted(cfg)
    /\ pc' = "csv"
    /\ UNCHANGED << unitVars, flow, argv, idx, calls, log, exitCode, clearVars, createVars >>

\* lines 65-73: readJSONSync throws, or a required field is missing
\* (process.exit(1))
ConfigRejected ==
    /\ flow = "create" /\ pc = "config"
    /\ ~ConfigAccepted(cfg)
    /\ Reject
    /\ UNCHANGED << unitVars, flow, argv, idx, calls, clearVars, createVars >>

\* lines 75-77: what parseScheduleCSV and expandRowsToRules make of the file
Expand(parsed) ==
    IF ~parsed.ok THEN parsed
    ELSE expandRowsToRules(parsed.value.rows, parsed.value.season)

Compile(recs, h) == Expand(parseScheduleCSV(recs, h))

ScheduleOk ==
    /\ flow = "create" /\ pc = "csv"
    /\ Compile(records, host).ok
    /\ rules' = Compile(records, host).value
    /\ pc' = "client"
    /\ UNCHANGED << unitVars, flow, argv, idx, calls, log, exitCode, clearVars, host, cfg,
                    records, store, runs >>

\* lines 75-77: the parser or the time-range resolver throws
ScheduleThrows ==
    /\ flow = "create" /\ pc = "csv"
    /\ ~Compile(records, host).ok
    /\ Reject
    /\ UNCHANGED << unitVars, flow, argv, idx, calls, clearVars, createVars >>

\* A variant that authorizes in a dry run as well.
CreateAuthorizeAlways ==
    /\ flow = "create" /\ pc = "client"
    /\ calls' = Append(calls, Call("authorize", ""))
    /\ pc' = "rules"
    /\ idx' = 1
    /\ UNCHANGED << unitVars, flow, argv, log, exitCode, clearVars, createVars >>

\* lines 80-82: authorize() resolves
CreateAuthorize ==
    /\ flow = "create" /\ pc = "client"
    /\ ~dryRun
    /\ calls' = Append(calls, Call("authorize", ""))
    /\ pc' = "rules"
    /\ idx' = 1
    /\ UNCHANGED << unitVars, flow, argv, log, exitCode, clearVars, createVars >>

\* lines 80-82: authorize() throws
CreateAuthorizeFails ==
    /\ flow = "create" /\ pc = "client"
    /\ ~dryRun
    /\ calls' = Append(calls, Call("authorize", ""))
    /\ Reject
    /\ UNCHANGED << unitVars, flow, argv, idx, clearVars, createVars >>

\* lines 83-87
DryRunBanner ==
    /\ flow = "create" /\ pc = "client"
    /\ dryRun
    /\ log' = Append(log, Said("dry-run mode", ""))
    /\ pc' = "rules"
    /\ idx' = 1
    /\ UNCHANGED << unitVars, flow, argv, calls, exitCode, clearVars, createVars >>

\* The event of the loops' current step (every rule holds one weekday).
CurrentEvent ==
    buildEventObject(cfg.value, rules[idx], rules[idx].byDay[1], rules[idx]._place)

\* calendar.ts 223: buildEventObject throws
BuildThrows ==
    /\ flow = "create" /\ pc = "rules"
    /\ idx <= Len(rules)
    /\ ~CurrentEvent.ok
    /\ Reject
    /\ UNCHANGED << unitVars, flow, argv, idx, calls, clearVars, createVars >>

\* calendar.ts 225-239: the event is logged only
PreviewEvent ==
    /\ flow = "create" /\ pc = "rules"
    /\ idx <= Len(rules)
    /\ CurrentEvent.ok
    /\ dryRun
    /\ log' = Append(log, Said("dry-run", CurrentEvent.value.key))
    /\ idx' = idx + 1
    /\ UNCHANGED << unitVars, flow, pc, argv, calls, exitCode, clearVars, createVars >>

\* The event resource the store creates for a request body: events.insert
\* without an id generates a new one.
Inserted(body) == [id |-> "ev" \o ToString(Len(store) + 1), body |-> body]

\* calendar.events.insert applied to the store
Insert(body) == Append(store, Inserted(body))

\* calendar.ts 241-251: the insert resolves
InsertEvent ==
    /\ flow = "create" /\ pc = "rules"
    /\ idx <= Len(rules)
    /\ CurrentEvent.ok
    /\ ~dryRun
    /\ calls' = Append(calls, Call("insert", CurrentEvent.value.key))
    /\ store' = Insert(CurrentEvent.value)
    /\ log' = Append(log, Said("created", CurrentEvent.value.key))
    /\ idx' = idx + 1
    /\ UNCHANGED << unitVars, flow, pc, argv, exitCode, clearVars, host, cfg, records, rules,
                    runs >>

\* A variant in which a rejected insert is logged and the loop goes on.
InsertFailsSkipped ==
    /\ flow = "create" /\ pc = "rules"
    /\ idx <= Len(rules)
    /\ CurrentEvent.ok
    /\ ~dryRun
    /\ calls' = Append(calls, Call("insert", CurrentEvent.value.key))
    /\ log' = Append(log, Said("error", ""))
    /\ idx' = idx + 1
    /\ UNCHANGED << unitVars, flow, pc, argv, exitCode, clearVars, createVars >>

\* calendar.ts 245-248: the insert rejects
InsertFails ==
    /\ flow = "create" /\ pc = "rules"
    /\ idx <= Len(rules)
    /\ CurrentEvent.ok
    /\ ~dryRun
    /\ calls' = Append(calls, Call("insert", CurrentEvent.value.key))
    /\ Reject
    /\ UNCHANGED << unitVars, flow, argv, idx, clearVars, createVars >>

\* lines 89-98: the loop is over
RulesDone ==
    /\ flow = "create" /\ pc = "rules"
    /\ idx > Len(rules)
    /\ log' = Append(log, Said(IF dryRun THEN "dry-run complete" ELSE "all created", ""))
    /\ Resolve
    /\ UNCHANGED << unitVars, flow, argv, idx, calls, clearVars, createVars >>

\* The script is started again with the same arguments and files, against the
\* same store.
Rerun ==
    /\ flow = "create" /\ pc = "exit"
    /\ runs < MaxRuns
    /\ runs' = runs + 1
    /\ pc' = "config"
    /\ exitCode' = {}
    /\ rules' = << >>
    /\ idx' = 1
    /\ UNCHANGED << unitVars, flow, argv, calls, log, clearVars, host, cfg, records, store >>

NextCreate ==
    \/ ConfigOk
    \/ ConfigRejected
    \/ ScheduleOk
    \/ ScheduleThrows
    \/ CreateAuthorize
    \/ CreateAuthorizeFails
    \/ DryRunBanner
    \/ BuildThrows
    \/ PreviewEvent
    \/ InsertEvent
    \/ InsertFails
    \/ RulesDone
    \/ Rerun

SpecCreate == InitCreate /\ [][NextCreate]_vars

Init == InitClear \/ InitCreate

Next == NextClear \/ NextCreate

Spec == Init /\ [][Next]_vars

-----------------------------------------------------------------------------
(* Properties of the clear flow *)

IsDelete(c) == c.op = "delete"

IsOutcome(l) ==
    l.kind \in { "deleted instance", "failed instance", "deleted series", "failed series" }

\* The ids deleteEvent has been called with, in order.
DeletedIds ==
    LET d == SelectSeq(calls, IsDelete) IN [i \in 1..Len(d) |-> d[i].id]

Plan == instanceDeletes \o seriesIds

Deleting == pc \in { "instances.delete", "series.delete" }

Failure == { r \in response : ~r.ok }

\* The outcome main logged last: "deleted ..." or "failed ...".
LastOutcome ==
    LET outcomes == SelectSeq(log, IsOutcome) IN outcomes[Len(outcomes)]

\* C1: in the clear flow with confirm = false the delete operation is never
\* invoked, whatever was listed and whatever deleteSeries is.
C1_DryRunNeverDeletes ==
    (flow = "clear" /\ ~argv.confirm) =>
        /\ \A i \in DOMAIN calls : calls[i].op # "delete"
        /\ tries = 0

\* A dry run that listed events, planned instance and series deletions, and ended.
C1_Witness ==
    /\ flow = "clear" /\ ~argv.confirm
    /\ pc = "exit" /\ exitCode = {0}
    /\ instanceDeletes # << >> /\ seriesIds # << >>

InSeries(ev) == argv.deleteSeries /\ ev.recurringEventId # ""

Standalone(ev) == ~InSeries(ev)

\* C2: with deleteSeries, an event that carries a series id contributes that
\* series id to seriesIds, once however many of its occurrences are listed, and
\* not its own id; every other event contributes its own id to instanceIds.
\* Without deleteSeries seriesIds is empty and only listed ids are deleted.
C2_PlanFollowsClassification ==
    (flow = "clear" /\ events # << >> /\ pc # "listed") =>
        LET own == SelectSeq(events, Standalone)
        IN  /\ instanceDeletes = [i \in 1..Len(own) |-> own[i].id]
            /\ Range(seriesIds) =
                  { ev.recurringEventId : ev \in { e \in Range(events) : InSeries(e) } }
            /\ Cardinality(Range(seriesIds)) = Len(seriesIds)
            /\ (argv.deleteSeries
                  /\ Len(events) = 2
                  /\ \A i \in 1..2 : events[i].recurringEventId = "S1")
               => (seriesIds = << "S1" >> /\ instanceDeletes = << >>)
            /\ ~argv.deleteSeries =>
                  /\ seriesIds = << >>
                  /\ Range(DeletedIds) \subseteq { ev.id : ev \in Range(events) }

\* Two listed occurrences of series S1, classified with deleteSeries.
C2_Witness ==
    /\ flow = "clear" /\ pc = "planned" /\ argv.deleteSeries
    /\ Len(events) = 2
    /\ events[1].recurringEventId = "S1" /\ events[2].recurringEventId = "S1"
    /\ seriesIds = << "S1" >> /\ instanceDeletes = << >>

\* C3: a delete the store answers with NotFound is a successful no-op:
\* deleteEvent does not raise and the run reports the id as deleted.
C3_NotFoundIsNoOp ==
    (flow = "clear" /\ \E r \in Failure : extractStatusCode(r.err) = {404}) =>
        /\ thrown = {}
        /\ LastOutcome.kind \in { "deleted instance", "deleted series" }

\* C4: with confirm, deleteEvent is called for the ids of the plan in order,
\* instanceIds first and then seriesIds, each call only after the previous one
\* has ended (in success or in a logged failure); a failure never ends the run,
\* and a completed run has called it for every id of the plan.
C4_EveryPlannedIdAttempted ==
    flow = "clear" =>
        LET outcomes == SelectSeq(log, IsOutcome)
        IN  /\ Len(DeletedIds) <= Len(Plan)
            /\ DeletedIds = SubSeq(Plan, 1, Len(DeletedIds))
            /\ Len(outcomes) = Len(DeletedIds) - (IF Deleting THEN 1 ELSE 0)
            /\ \A i \in 1..Len(outcomes) : outcomes[i].id = DeletedIds[i]
            /\ thrown # {} => (exitCode # {1} /\ outcomes # << >>)
            /\ DeletedIds # << >> => exitCode # {1}
            /\ (pc = "exit" /\ exitCode = {0} /\ argv.confirm /\ events # << >>)
                  => DeletedIds = Plan

\* A completed run in which an instance delete failed and a series delete
\* after it succeeded.
C4_Witness ==
    /\ flow = "clear" /\ pc = "exit" /\ exitCode = {0}
    /\ \E i, j \in DOMAIN log :
          /\ i < j
          /\ log[i].kind = "failed instance"
          /\ log[j].kind = "deleted series"

\* C5: one deleteEvent call sends at most 6 requests (5 retries), waits
\* 1, 2, 4, 8, 10 seconds before the retries, completes without error when a
\* request succeeds, and raises the last failure when all 6 fail.
C5_BoundedBackoff ==
    flow = "clear" =>
        /\ attempt <= 5
        /\ tries <= 6
        /\ waits = SubSeq(<< 1000, 2000, 4000, 8000, 10000 >>, 1, Len(waits))
        /\ Len(waits) = attempt
        /\ Deleting => tries = attempt
        /\ (\E r \in response : r.ok) =>
              /\ thrown = {}
              /\ LastOutcome.kind \in { "deleted instance", "deleted series" }
        /\ (tries = 6 /\ Failure # {}) => thrown # {}
        /\ thrown # {} => thrown = { r.err : r \in Failure }

\* Three retryable failures, then success on the fourth request.
C5_Witness ==
    /\ flow = "clear"
    /\ tries = 4 /\ waits = << 1000, 2000, 4000 >>
    /\ response = { [ok |-> TRUE] }
    /\ thrown = {}

-----------------------------------------------------------------------------
(* Properties of the create flow *)

IsPreview(l) == l.kind = "dry-run"

\* The event fields the key is to tell apart.
Combination(body) ==
    << body.place, body.byDay, body.startTime, body.endTime, body.season >>

\* C7: after any number of confirmed runs on the same schedule and
\* configuration against the same store, the store holds at most one event per
\* idempotency key.
C7_AtMostOneEventPerKey ==
    flow = "create" =>
        \A i, j \in DOMAIN store : store[i].body.key = store[j].body.key => i = j

\* C8: the key is a function of (summary, place, weekday code, start time, end
\* time, season start, season end), so compiling the same input again yields
\* the same key, and two compiled events that differ in place, weekday, start or
\* end time or season never carry the same key.
C8_KeyIdentifiesCombination ==
    flow = "create" =>
        \A i, j \in DOMAIN store :
            /\ (/\ store[i].body.summary = store[j].body.summary
                /\ Combination(store[i].body) = Combination(store[j].body))
                  => store[i].body.key = store[j].body.key
            /\ Combination(store[i].body) # Combination(store[j].body)
                  => store[i].body.key # store[j].body.key

\* C9: in a create run without confirm, neither authorize nor insert nor any
\* other store operation is invoked and the store is left as it was; a run that
\* completes has logged each compiled event once, and a run that fails has
\* failed on the configuration, the schedule or the event's construction.
C9_DryRunContactsNothing ==
    (flow = "create" /\ dryRun) =>
        /\ calls = << >>
        /\ store = << >>
        /\ exitCode = {0} => Len(SelectSeq(log, IsPreview)) = runs * Len(rules)
        /\ exitCode = {1} =>
              \/ ~ConfigAccepted(cfg)
              \/ ~Compile(records, host).ok
              \/ (idx <= Len(rules) /\ ~CurrentEvent.ok)

\* A completed dry run of a schedule with two rows.
C9_Witness ==
    /\ flow = "create" /\ dryRun
    /\ pc = "exit" /\ exitCode = {0}
    /\ Len(rules) = 2
    /\ Len(SelectSeq(log, IsPreview)) >= 2

\* The form the --start and --end options document: YYYY-MM-DD
IsYMD(s) == Len(s) = 10 /\ IsoDate(s)

\* The create flow's half of C10: no authorize and no insert unless calendarId
\* and timezone are present, the CSV parsed and every time range resolved.
CreateEffectsNeedValidInput ==
    (flow = "create" /\ calls # << >>) =>
        /\ ConfigAccepted(cfg)
        /\ parseScheduleCSV(records, host).ok
        /\ Compile(records, host).ok

\* C10 as stated: in the clear flow no list and no delete happens if a window
\* date or the tag filter is malformed.
C10_MalformedInputAborts ==
    /\ CreateEffectsNeedValidInput
    /\ (flow = "clear" /\ \E i \in DOMAIN calls : calls[i].op \in {"list", "delete"}) =>
          /\ IsYMD(argv.start)
          /\ IsYMD(argv.end)
          /\ parsePrivateFilter(argv.privateKey).ok

\* C10 amended: in the clear flow no authorize, list or delete happens if a
\* window date followed by "T00:00:00" is not a date the engine can parse, the
\* time zone is not one the engine knows, or the tag filter is not key=value
\* with a non-blank key and value.
C10_DetectedErrorsAbort ==
    /\ CreateEffectsNeedValidInput
    /\ (flow = "clear" /\ calls # << >>) =>
          /\ DateIsValid(argv.start \o "T00:00:00")
          /\ DateIsValid(argv.end \o "T00:00:00")
          /\ argv.timezone \in KnownTimeZones
          /\ parsePrivateFilter(argv.privateKey).ok

\* A clear run given a tag filter without "=" has ended with exit code 1 and
\* without a call.
C10_Witness ==
    /\ flow = "clear"
    /\ argv.privateKey = "source" /\ argv.confirm
    /\ IsYMD(argv.start) /\ IsYMD(argv.end) /\ argv.timezone \in KnownTimeZones
    /\ pc = "exit" /\ exitCode = {1}
    /\ calls = << >>

-----------------------------------------------------------------------------
(* Exit codes *)

LastSaid == IF log = << >> THEN "" ELSE log[Len(log)].kind

Completions == { "none found", "dry-run complete", "done", "all created" }

IsFailedDelete(l) == l.kind \in { "failed instance", "failed series" }

\* The run met an error: the one main().catch reported, or a delete that was
\* rejected for good.
HitError == LastSaid = "error" \/ SelectSeq(log, IsFailedDelete) # << >>

\* C11 as stated: the exit code is non-zero whenever the run hit an error,
\* a rejected delete included, and zero only when the run completed.
C11_NonZeroOnAnyError ==
    pc = "exit" =>
        /\ HitError => exitCode = {1}
        /\ exitCode = {0} => LastSaid \in Completions

\* C11 amended: the exit code is 1 when the configuration or the arguments are
\* rejected, the schedule does not parse, an event cannot be built, or
\* authorize, list or insert fails; it is 0 exactly when the run reached its
\* closing message, and a delete rejected for good is logged without changing
\* the exit code of the run that goes on.
C11_NonZeroOnUnrecoveredError ==
    /\ exitCode # {} <=> pc = "exit"
    /\ pc = "exit" =>
          /\ exitCode = {1} <=> LastSaid = "error"
          /\ exitCode = {0} <=> LastSaid \in Completions
          /\ (flow = "clear" /\ ~ArgsAccepted(argv)) => exitCode = {1}
          /\ (flow = "create" /\ (~ConfigAccepted(cfg) \/ ~Compile(records, host).ok))
                => exitCode = {1}
          /\ (flow = "clear" /\ exitCode = {0} /\ argv.confirm)
                => Len(SelectSeq(calls, IsDelete)) = Len(Plan)
          /\ (flow = "create" /\ exitCode = {0} /\ ~dryRun) => Len(store) >= Len(rules)

\* A confirmed clear run in which a delete was rejected for good has ended
\* with exit code 0.
C11_Witness ==
    /\ flow = "clear" /\ argv.confirm
    /\ pc = "exit" /\ exitCode = {0}
    /\ SelectSeq(log, IsFailedDelete) # << >>

-----------------------------------------------------------------------------
(* Insert failures *)

IsAuthorize(c) == c.op = "authorize"

IsCreated(l) == l.kind = "created"

\* The calls of the confirmed run under way: those after its authorize call.
RECURSIVE SinceAuthorize(_)
SinceAuthorize(cs) ==
    IF cs = << >> \/ IsAuthorize(cs[Len(cs)]) THEN << >>
    ELSE Append(SinceAuthorize(SubSeq(cs, 1, Len(cs) - 1)), cs[Len(cs)])

KeyOf(rule) == buildEventObject(cfg.value, rule, rule.byDay[1], rule._place).value.key

\* The run under way was ended by a rejected insert.
InsertFailed ==
    /\ pc = "exit" /\ exitCode = {1}
    /\ idx <= Len(rules) /\ CurrentEvent.ok
    /\ calls # << >> /\ calls[Len(calls)].op = "insert"

\* C12: a rejected insert is not retried and ends the run: the inserts of a
\* run are one per template, in order, up to and including the rejected one;
\* none follows it; and the events inserted before it, like those of earlier
\* runs, stay in the store.
C12_InsertFailureAborts ==
    (flow = "create" /\ ~dryRun) =>
        /\ Len(store) = Len(SelectSeq(log, IsCreated))
        /\ (pc \in {"rules", "exit"} /\ ConfigAccepted(cfg) /\ Compile(records, host).ok) =>
              LET ins == SinceAuthorize(calls)
                  done == idx - 1
              IN  /\ Len(ins) = IF InsertFailed THEN done + 1 ELSE done
                  /\ \A i \in DOMAIN ins : ins[i].id = KeyOf(rules[i])
                  /\ Len(store) >= done
                  /\ \A i \in 1..done :
                        store[Len(store) - done + i].body.key = KeyOf(rules[i])

\* The insert of the second of two templates was rejected: two inserts were
\* requested and the first event is in the store.
C12_Witness ==
    /\ flow = "create" /\ ~dryRun
    /\ InsertFailed
    /\ Len(rules) = 2 /\ idx = 2
    /\ Len(SinceAuthorize(calls)) = 2
    /\ Len(store) = 1 /\ store[1].body.key = KeyOf(rules[1])

-----------------------------------------------------------------------------
(* The deletion window *)

\* The UTC instant of 00:00 of a date in a zone
LocalMidnightUTC(dateStr, tz) ==
    toISOString(Shift(Wall(DateFields(dateStr), 0, 0, 0),
                      0 - ZoneOffset(tz, DateFields(dateStr))))

IsList(c) == c.op = "list"

\* C13: the window passed to list starts at the UTC instant of 00:00 of the
\* start date in the requested timezone and ends at the UTC instant of 00:00
\* of the end date itself in that timezone, whatever the host's timezone.
C13_WindowIsLocalMidnight ==
    flow = "clear" =>
        \A i \in DOMAIN calls :
            IsList(calls[i]) =>
                calls[i].id = LocalMidnightUTC(argv.start, argv.timezone) \o "/"
                                  \o LocalMidnightUTC(argv.end, argv.timezone)

-----------------------------------------------------------------------------
(* parseTimeRange applied on its own *)

HoursWritten == { 1, 2, 6, 7, 11, 12, 13 }

\* Minutes written after the hour; -1 stands for none written
MinutesWritten == { -1, 5, 30 }

SuffixesWritten == { "", "am", "pm", " PM", "AM " }

DashesWritten == { "-", " - " }

ClockText(h, m) == ToString(h) \o (IF m = -1 THEN "" ELSE ":" \o pad2(m))

\* A written range, kept with the elements it was written from
RangeWritten(h1, m1, d, h2, m2, suf) ==
    [ text |-> ClockText(h1, m1) \o d \o ClockText(h2, m2) \o suf,
      matches |-> TRUE, h1 |-> h1, m1 |-> m1, h2 |-> h2, m2 |-> m2,
      suf |-> toLowerCase(trim(suf)) ]

OtherTexts == { "7pm", "630-730", "6:3-7", "1-2xm", "", "1:5-2", "noon-1pm" }

TimeRangeArgs ==
    { RangeWritten(h1, m1, d, h2, m2, suf) :
        h1 \in HoursWritten, m1 \in MinutesWritten, d \in DashesWritten,
        h2 \in HoursWritten, m2 \in MinutesWritten, suf \in SuffixesWritten }
    \cup { [text |-> t, matches |-> FALSE, h1 |-> 0, m1 |-> 0, h2 |-> 0, m2 |-> 0,
            suf |-> ""] : t \in OtherTexts }

InitTimeRange ==
    /\ flow = "parseTimeRange"
    /\ pc = "call"
    /\ arg \in TimeRangeArgs
    /\ result = {}
    /\ results = << >>
    /\ pageToken = {}
    /\ argv = << >>
    /\ host = "utc"
    /\ events = << >>
    /\ instanceDeletes = << >>
    /\ seriesIds = << >>
    /\ idx = 1
    /\ attempt = 0
    /\ tries = 0
    /\ waits = << >>
    /\ response = {}
    /\ thrown = {}
    /\ cfg = Throws("not read")
    /\ records = << >>
    /\ rules = << >>
    /\ store = << >>
    /\ runs = 0
    /\ calls = << >>
    /\ log = << >>
    /\ exitCode = {}

\* Everything but the position, the argument and the result of a helper call
mainVars == << flow, argv, idx, calls, log, exitCode, clearVars, createVars >>

CallParseTimeRange ==
    /\ flow = "parseTimeRange" /\ pc = "call"
    /\ result' = { parseTimeRange(arg.text) }
    /\ pc' = "returned"
    /\ UNCHANGED << arg, listVars, mainVars >>

NextTimeRange == CallParseTimeRange

SpecTimeRange == InitTimeRange /\ [][NextTimeRange]_vars

\* The hours the rules of C14 give for a written range
StartHourByRule(a) ==
    IF a.suf = "am" THEN (IF a.h1 = 12 THEN 0 ELSE a.h1)
    ELSE IF a.suf = "pm" THEN (IF a.h2 = 12 \/ a.h1 = 12 THEN a.h1 ELSE a.h1 + 12)
    ELSE a.h1

EndHourByRule(a) ==
    IF a.suf = "am" THEN (IF a.h2 = 12 THEN 0 ELSE a.h2)
    ELSE IF a.suf = "pm" THEN (IF a.h2 = 12 THEN 12 ELSE a.h2 + 12)
    ELSE a.h2

MinuteByRule(m) == IF m = -1 THEN 0 ELSE m

TimeOf(hh, mm) == [hour |-> hh, minute |-> mm]

\* C14: for a text of the form H[:MM]-H[:MM][am|pm], parseTimeRange leaves the
\* hours as written without a suffix, maps 12 to 0 under "am", adds 12 to each
\* hour other than 12 under "pm" unless the end hour is 12, in which case the
\* end stays 12 and the start is not shifted; minutes not written are 0; any
\* other text is rejected.
C14_TimeRangeRules ==
    flow = "parseTimeRange" =>
        \A r \in result :
            /\ r.ok = arg.matches
            /\ arg.matches =>
                  /\ r.value.start = TimeOf(StartHourByRule(arg), MinuteByRule(arg.m1))
                  /\ r.value.end = TimeOf(EndHourByRule(arg), MinuteByRule(arg.m2))
            /\ arg.text = "6:30-7:30am" =>
                  r.value.start = TimeOf(6, 30) /\ r.value.end = TimeOf(7, 30)
            /\ arg.text = "1-2pm" =>
                  r.value.start = TimeOf(13, 0) /\ r.value.end = TimeOf(14, 0)
            /\ arg.text = "11-12pm" =>
                  r.value.start = TimeOf(11, 0) /\ r.value.end = TimeOf(12, 0)

\* "11-12pm" was resolved to 11:00-12:00.
C14_Witness ==
    /\ flow = "parseTimeRange"
    /\ arg.text = "11-12pm"
    /\ result = { Ok([start |-> TimeOf(11, 0), end |-> TimeOf(12, 0)]) }

\* C20: every time range parseTimeRange returns holds clock values of a
\* 24-hour day: hours 0..23 and minutes 0..59, for start and end.
C20_ValidClockValues ==
    flow = "parseTimeRange" =>
        \A r \in result :
            r.ok => /\ r.value.start.hour \in 0..23 /\ r.value.start.minute \in 0..59
                    /\ r.value.end.hour \in 0..23 /\ r.value.end.minute \in 0..59

-----------------------------------------------------------------------------
(* parseScheduleCSV applied on its own *)

PlacesWritten == { "", "a", "b" }

DaysWritten == { "", "Monday", "Tuesday", "monday" }

\* Data rows: a place and a day cell, each possibly blank, with a time; a row
\* that only names a place and a day; a row of four blank cells.
RowsWritten ==
    { << p, d, "1-2pm", "" >> : p \in PlacesWritten, d \in DaysWritten }
    \cup { << "b", "Tuesday", "", "Adult" >>, << "", "", "", "" >> }

\* A Start row, an End row, the header and 1 to MaxRows + 1 data rows
ScheduleArgs ==
    { << StartRow, EndRow, HeaderRow >> \o data :
        data \in UNION { [1..n -> RowsWritten] : n \in 1..(MaxRows + 1) } }

InitRows ==
    /\ flow = "parseScheduleCSV"
    /\ pc = "call"
    /\ arg \in ScheduleArgs
    /\ result = {}
    /\ results = << >>
    /\ pageToken = {}
    /\ argv = << >>
    /\ host = "utc"
    /\ events = << >>
    /\ instanceDeletes = << >>
    /\ seriesIds = << >>
    /\ idx = 1
    /\ attempt = 0
    /\ tries = 0
    /\ waits = << >>
    /\ response = {}
    /\ thrown = {}
    /\ cfg = Throws("not read")
    /\ records = << >>
    /\ rules = << >>
    /\ store = << >>
    /\ runs = 0
    /\ calls = << >>
    /\ log = << >>
    /\ exitCode = {}

CallParseScheduleCSV ==
    /\ flow = "parseScheduleCSV" /\ pc = "call"
    /\ result' = { parseScheduleCSV(arg, host) }
    /\ pc' = "returned"
    /\ UNCHANGED << arg, listVars, mainVars >>

NextRows == CallParseScheduleCSV

SpecRows == InitRows /\ [][NextRows]_vars

\* The data rows of the argument: those after the header
DataOf(recs) == SubSeq(recs, 4, Len(recs))

IsBlankRow(row) == \A k \in 1..4 : row[k] = ""

\* The nearest non-blank cell of column k at or before row i ("" if none)
Carried(data, i, k) ==
    LET filled == { j \in 1..i : data[j][k] # "" }
    IN  IF filled = {} THEN ""
        ELSE data[CHOOSE j \in filled : \A l \in filled : l <= j][k]

\* The rows that become a ScheduleRow: not blank, with a time, and with a place
\* and a day of their own or carried
Producing(data) ==
    { i \in DOMAIN data :
        /\ ~IsBlankRow(data[i])
        /\ data[i][3] # ""
        /\ Carried(data, i, 1) # ""
        /\ Carried(data, i, 2) # "" }

\* The k-th smallest element of a set of numbers
Nth(S, k) == CHOOSE i \in S : Cardinality({ j \in S : j <= i }) = k

RecognizedDays ==
    { "Sunday", "Monday", "Tuesday", "Wednesday", "Thursday", "Friday", "Saturday" }

upperChar(c) ==
    IF c \in Range(Lower) THEN Upper[CHOOSE i \in DOMAIN Lower : Lower[i] = c] ELSE c

\* The rule code of a weekday name: its first two letters in capitals
TwoLetterCode(name) == upperChar(charAt(name, 1)) \o upperChar(charAt(name, 2))

\* C15: a data row with a blank place or weekday cell gets the nearest
\* preceding non-blank value of that column; a row of four blank cells
\* produces no ScheduleRow and leaves the carried values as they were.
C15_CarryForward ==
    flow = "parseScheduleCSV" =>
        \A r \in result :
            r.ok =>
                LET data == DataOf(arg)
                    made == Producing(data)
                IN  /\ Len(r.value.rows) = Cardinality(made)
                    /\ \A k \in DOMAIN r.value.rows :
                          /\ r.value.rows[k].place = Carried(data, Nth(made, k), 1)
                          /\ r.value.rows[k].day = Carried(data, Nth(made, k), 2)
                          /\ r.value.rows[k].timeRange = data[Nth(made, k)][3]
                          /\ r.value.rows[k].swim = data[Nth(made, k)][4]

\* A row, a blank row, then a row without place and day: the third row got the
\* first row's place and day.
C15_Witness ==
    /\ flow = "parseScheduleCSV"
    /\ DataOf(arg) = << << "a", "Monday", "1-2pm", "" >>, << "", "", "", "" >>,
                        << "", "", "1-2pm", "" >> >>
    /\ \E r \in result :
          /\ r.ok /\ Len(r.value.rows) = 2
          /\ r.value.rows[2].place = "a" /\ r.value.rows[2].day = "Monday"

-----------------------------------------------------------------------------
(* buildEventObject applied on its own *)

Ymd(y, m, d) == [y |-> y, m |-> m, d |-> d]

\* Season starts: a week of consecutive days, and days before a month's, a
\* leap February's and a year's end
SeasonStarts ==
    { Ymd(2025, 9, d) : d \in 1..7 }
    \cup { Ymd(2025, 11, 28), Ymd(2024, 2, 26), Ymd(2025, 12, 29) }

\* Season ends: in standard time, in daylight time, and on the year's last day
SeasonEnds == { Ymd(2025, 12, 21), Ymd(2025, 10, 31), Ymd(2025, 6, 30), Ymd(2025, 12, 31) }

DayCodes == << "SU", "MO", "TU", "WE", "TH", "FR", "SA" >>

BuildArgs ==
    { [ cfg |-> [calendarId |-> "cal", timezone |-> tz],
        rule |-> [ summary |-> "Swim", description |-> "", startTime |-> "06:30",
                   endTime |-> "07:30", byDay |-> << DayCodes[k] >>,
                   season |-> [startDate |-> formatYMD(s), endDate |-> formatYMD(e)],
                   _place |-> "a" ],
        byDay |-> DayCodes[k],
        place |-> "a" ] :
        tz \in KnownTimeZones, k \in DOMAIN DayCodes, s \in SeasonStarts,
        e \in SeasonEnds }

InitBuild ==
    /\ flow = "buildEventObject"
    /\ pc = "call"
    /\ arg \in BuildArgs
    /\ result = {}
    /\ results = << >>
    /\ pageToken = {}
    /\ argv = << >>
    /\ host \in Hosts
    /\ events = << >>
    /\ instanceDeletes = << >>
    /\ seriesIds = << >>
    /\ idx = 1
    /\ attempt = 0
    /\ tries = 0
    /\ waits = << >>
    /\ response = {}
    /\ thrown = {}
    /\ cfg = Throws("not read")
    /\ records = << >>
    /\ rules = << >>
    /\ store = << >>
    /\ runs = 0
    /\ calls = << >>
    /\ log = << >>
    /\ exitCode = {}

CallBuildEventObject ==
    /\ flow = "buildEventObject" /\ pc = "call"
    /\ result' = { buildEventObject(arg.cfg, arg.rule, arg.byDay, arg.place) }
    /\ pc' = "returned"
    /\ UNCHANGED << arg, listVars, mainVars >>

NextBuild == CallBuildEventObject

SpecBuild == InitBuild /\ [][NextBuild]_vars

\* The UTC instant of a wall time in a zone, with the offset in force there on
\* that date, in the compact form
TrueUTC(w, tz) == CompactZ(Shift(w, 0 - ZoneOffset(tz, w.date)))

\* C17: the UNTIL bound is the UTC instant of 23:59:59 of the season's end date
\* in the configured timezone, with the offset in force on that date, written
\* YYYYMMDDTHHMMSSZ; so it is the same on every host and not earlier than the
\* season's last local second.
C17_UntilIsEndOfLastDay ==
    flow = "buildEventObject" =>
        \A r \in result :
            r.ok => r.value.recurrence =
                        "RRULE:FREQ=WEEKLY;BYDAY=" \o arg.byDay \o ";UNTIL="
                            \o TrueUTC(Wall(DateFields(arg.rule.season.endDate), 23, 59, 59),
                                       arg.cfg.timezone)

\* The date a local date-time text carries
DateOfText(text) == DateFields(SubSeq(text, 1, 10))

\* C19: the first occurrence falls on the target weekday, on the season's start
\* date or at most 6 days after it (on the start date itself when that has the
\* target weekday), and the event's local start and end carry that date.
C19_FirstOccurrence ==
    flow = "buildEventObject" =>
        \A r \in result :
            LET start == DateFields(arg.rule.season.startDate)
                first == DateOfText(r.value.times.start)
            IN  /\ r.ok
                /\ DayCodes[getDay(first) + 1] = arg.byDay
                /\ \E k \in 0..6 : first = AddDays(start, k)
                /\ DayCodes[getDay(start) + 1] = arg.byDay => first = start
                /\ DateOfText(r.value.times.end) = first
                /\ r.value.times.start = formatYMD(first) \o "T06:30:00"
                /\ r.value.times.end = formatYMD(first) \o "T07:30:00"

\* A season starting on Monday 2025-12-29 with target Sunday: the first
\* occurrence is 2026-01-04, six days later and in the next year.
C19_Witness ==
    /\ flow = "buildEventObject"
    /\ arg.rule.season.startDate = "2025-12-29" /\ arg.byDay = "SU"
    /\ \E r \in result : r.ok /\ r.value.times.start = "2026-01-04T06:30:00"

-----------------------------------------------------------------------------
(* The deletion plan's ids *)

NoRepeat(seq) == \A i, j \in DOMAIN seq : seq[i] = seq[j] => i = j

DeleteCalls == SelectSeq(calls, IsDelete)

-----------------------------------------------------------------------------
(* listEvents applied on its own (calendar.ts 61-93), one step per await *)

\* The page requests one call may send before the model stops following it
MaxPages == 4

PageTokens == { "t1", "t2" }

\* res.data.items: absent, or the events of the page
ItemOptions == { {}, { << "e1" >> }, { << "e2", "e3" >> } }

\* res.data.nextPageToken: absent, empty, or a token
TokenOptions == { {} } \cup { { t } : t \in PageTokens \cup { "" } }

Pages == [items : ItemOptions, nextPageToken : TokenOptions]

\* The store as a sequence of pages: the page a request without a token gets,
\* and the page each token stands for
PageStores == [first : Pages, after : [PageTokens -> Pages]]

TheToken(tok) == CHOOSE t \in tok : TRUE

PageFor(st, tok) == IF tok = {} THEN st.first ELSE st.after[TheToken(tok)]

\* JavaScript truthiness of pageToken: undefined and "" are falsy
Truthy(tok) == tok # {} /\ tok # { "" }

\* A request that never carries a page token
RequestFirstPage(tok) == {}

\* lines 83-85: pageToken ? { ...params, pageToken } : { ...params }
Request(tok) == IF Truthy(tok) THEN tok ELSE {}

\* line 87: res.data.items ?? []
ItemsOf(res) == IF res.items = {} THEN << >> ELSE CHOOSE i \in res.items : TRUE

InitList ==
    /\ flow = "listEvents"
    /\ pc = "request"
    /\ arg \in PageStores
    /\ result = {}
    /\ results = << >>
    /\ pageToken = {}
    /\ argv = << >>
    /\ host = "utc"
    /\ events = << >>
    /\ instanceDeletes = << >>
    /\ seriesIds = << >>
    /\ idx = 1
    /\ attempt = 0
    /\ tries = 0
    /\ waits = << >>
    /\ response = {}
    /\ thrown = {}
    /\ cfg = Throws("not read")
    /\ records = << >>
    /\ rules = << >>
    /\ store = << >>
    /\ runs = 0
    /\ calls = << >>
    /\ log = << >>
    /\ exitCode = {}

listRest == << flow, arg, argv, idx, log, exitCode, clearVars, createVars >>

\* lines 83-89: one page is requested, awaited and consumed
FetchPage ==
    /\ flow = "listEvents" /\ pc = "request"
    /\ Len(calls) < MaxPages
    /\ calls' = Append(calls, Call("list", Request(pageToken)))
    /\ results' = results \o ItemsOf(PageFor(arg, Request(pageToken)))
    /\ pageToken' = PageFor(arg, Request(pageToken)).nextPageToken
    /\ pc' = "while"
    /\ UNCHANGED << result, listRest >>

\* line 86: the awaited request rejects, and listEvents rejects with it
FetchPageRejects ==
    /\ flow = "listEvents" /\ pc = "request"
    /\ Len(calls) < MaxPages
    /\ calls' = Append(calls, Call("list", Request(pageToken)))
    /\ result' = { Throws("list failed") }
    /\ pc' = "returned"
    /\ UNCHANGED << listVars, listRest >>

\* line 90: while (pageToken) holds
LoopAgain ==
    /\ flow = "listEvents" /\ pc = "while"
    /\ Truthy(pageToken)
    /\ pc' = "request"
    /\ UNCHANGED << result, listVars, calls, listRest >>

\* lines 90-92: while (pageToken) fails; return results
ReturnResults ==
    /\ flow = "listEvents" /\ pc = "while"
    /\ ~Truthy(pageToken)
    /\ result' = { Ok(results) }
    /\ pc' = "returned"
    /\ UNCHANGED << listVars, calls, listRest >>

NextList == FetchPage \/ FetchPageRejects \/ LoopAgain \/ ReturnResults

\* Every awaited request settles and its continuation runs
SpecList == InitList /\ [][NextList]_vars /\ WF_vars(NextList)

\* A response that names a next page
HasNextPage(page) == \E t \in page.nextPageToken : t # ""

RECURSIVE PageAt(_, _)
\* The k-th page of the store's sequence
PageAt(st, k) ==
    IF k = 1 THEN st.first
    ELSE st.after[TheToken(PageAt(st, k - 1).nextPageToken)]

RECURSIVE ItemsOfPages(_, _)
\* The items of the first n pages, in page order
ItemsOfPages(st, n) ==
    IF n = 0 THEN << >>
    ELSE ItemsOfPages(st, n - 1)
            \o (IF PageAt(st, n).items = {} THEN << >>
                ELSE CHOOSE i \in PageAt(st, n).items : TRUE)

RECURSIVE EndsWithin(_, _, _)
EndsWithin(st, k, n) ==
    IF ~HasNextPage(PageAt(st, k)) THEN TRUE
    ELSE IF n = 0 THEN FALSE
    ELSE EndsWithin(st, k + 1, n - 1)

\* The store's sequence of pages reaches a page without a next-page token
PagesEnd(st) == EndsWithin(st, 1, Cardinality(PageTokens))

\* The requests of this call that were answered with a page
Answered == IF \E r \in result : ~r.ok THEN Len(calls) - 1 ELSE Len(calls)

PagesInOrder ==
    flow = "listEvents" =>
        /\ \A k \in DOMAIN calls :
              IF k = 1 THEN calls[k] = Call("list", {})
              ELSE /\ HasNextPage(PageAt(arg, k - 1))
                   /\ calls[k] = Call("list", PageAt(arg, k - 1).nextPageToken)
        /\ results = ItemsOfPages(arg, Answered)
        /\ \A r \in result :
              r.ok => /\ r.value = ItemsOfPages(arg, Len(calls))
                      /\ ~HasNextPage(PageAt(arg, Len(calls)))

\* C21: the first request carries no page token and each later one carries the
\* token of the previous response, which named a next page; the call returns at
\* the first response that names none, with the items of all pages fetched in
\* page order; if the store's pages end the call ends, and if they never end it
\* never returns a result.
C21_PagesFetchedInOrder ==
    /\ []PagesInOrder
    /\ (flow = "listEvents" /\ PagesEnd(arg)) ~> (pc = "returned")
    /\ [](flow = "listEvents" /\ ~PagesEnd(arg) => \A r \in result : ~r.ok)

\* Three pages were fetched one after another and their items returned
C21_Witness ==
    /\ flow = "listEvents" /\ pc = "returned"
    /\ Len(calls) = 3
    /\ calls[2].id # calls[3].id
    /\ \E r \in result : r.ok /\ r.value = << "e1", "e2", "e3", "e1" >>

====
